---- MODULE Spec2Model ----
(***************************************************************************)
(* chupaESRI: import of the features of an ArcGIS Server query endpoint    *)
(* into a PostGIS table (src/chupaESRI.py).                                *)
(*                                                                         *)
(* Conventions of the model                                                *)
(*   - a Python value that may be None, or a dict key that may be absent,  *)
(*     is a set with at most one element: None == {}, Some(v) == {v};      *)
(*   - a field name is a sequence of one-character strings, so that        *)
(*     _clean_field_names really splits and strips;                        *)
(*   - a row of the destination table is <<objectid, run>>: the id the     *)
(*     source gave it and the run that inserted it.  The table has no      *)
(*     unique constraint (CREATE TABLE declares none), so the same id can  *)
(*     be stored by two runs.                                              *)
(***************************************************************************)
EXTENDS Integers, Sequences, FiniteSets, TLC

VARIABLES
    call,                 \* a call of one of the pure functions: its input and result
    src,                  \* the source service: version, id field, schema, features
    db,                   \* the destination store: what is committed
    tx,                   \* the connection's open transaction
    run,                  \* number of the current run of main (0: none started)
    pc,                   \* position of main
    error,                \* the exception that ended the run, "" when none
    objectid_field_name,  \* module global, line 54
    oids,                 \* main: oids, the planned chunks
    table_exists,         \* main: table_exists
    db_max,               \* main: db_max
    l,                    \* main: index in oids of the chunk of the for loop
    jp,                   \* main: jp, the EsriJSON2Pg of the fetched chunk
    i,                    \* insert_statements: i, index of the next feature
    log,                  \* the run's external events, in order
    hist,                 \* what the run found at its start and has completed
    faults                \* external failures injected so far

vars == <<call, src, db, tx, run, pc, error, objectid_field_name, oids,
          table_exists, db_max, l, jp, i, log, hist, faults>>

mainVars == <<src, db, tx, run, pc, error, objectid_field_name, oids,
              table_exists, db_max, l, jp, i, log, hist, faults>>

None == {}
Some(v) == {v}
Get(o) == CHOOSE v \in o : TRUE

(***************************************************************************)
(* Bounds of the model                                                     *)
(***************************************************************************)
MaxStride == 2      \* sampled id bounds reach MaxStride * 1000 + 999
MaxFields == 2      \* longest sampled list of source field descriptors
MaxRuns == 3        \* runs of main against the same source and table
MaxFaults == 1      \* external failures (network, database) over all runs
MaxSpan == 2        \* the sampled source ids reach MaxSpan * 1000 + 500

(***************************************************************************)
(* Program constants                                                       *)
(***************************************************************************)
ChunkStep == 1000
ChunkSpan == 999
fudge == 5
_web_mercator == 3857
EsriWebMercator == 102100
StatsVersion == 101          \* 10.1, in tenths
DbMaxInit == -1

(***************************************************************************)
(* Strings as sequences of characters                                      *)
(***************************************************************************)
S_objectid == <<"o", "b", "j", "e", "c", "t", "i", "d">>
S_fid == <<"f", "i", "d">>
S_name == <<"n", "a", "m", "e">>
S_shape == <<"s", "h", "a", "p", "e">>
S_geometry == <<"g", "e", "o", "m", "e", "t", "r", "y">>
S_t_name == <<"t", ".", "n", "a", "m", "e">>
S_paren == <<"a", ".", "s", "u", "m", "(", "n", "a", "m", "e", ")">>
S_empty == <<>>

Contains(s, c) == \E k \in 1..Len(s) : s[k] = c
LastIndexOf(s, c) == CHOOSE k \in 1..Len(s) : s[k] = c /\ \A j \in (k+1)..Len(s) : s[j] # c
Replace(s, c) == SelectSeq(s, LAMBDA x : x # c)
Lower(name) == IF name = "OBJECTID" THEN "objectid" ELSE IF name = "FID" THEN "fid" ELSE name

\* _clean_field_names: only a qualified name is changed; it keeps its last
\* segment, without parentheses.
_clean_field_names(name) ==
    IF Contains(name, ".")
    THEN Replace(Replace(SubSeq(name, LastIndexOf(name, ".") + 1, Len(name)), "("), ")")
    ELSE name

(***************************************************************************)
(* EsriJSON2Pg: the translation tables                                     *)
(***************************************************************************)
_esri_types ==
    [t \in {"esriGeometryNull", "esriGeometryPoint", "esriGeometryMultipoint",
            "esriGeometryLine", "esriGeometryCircularArc", "esriGeometryEllipticArc",
            "esriGeometryBezier3Curve", "esriGeometryPath", "esriGeometryPolyline",
            "esriGeometryRing", "esriGeometryPolygon", "esriGeometryEnvelope",
            "esriGeometryAny", "esriGeometryMultiPatch", "esriGeometryTriangleStrip",
            "esriGeometryTriangleFan", "esriGeometryTriangles"} |->
        CASE t = "esriGeometryNull" -> "GEOMETRY"
          [] t = "esriGeometryPoint" -> "POINT"
          [] t = "esriGeometryMultipoint" -> "MULTIPOINT"
          [] t = "esriGeometryLine" -> "LINESTRING"
          [] t \in {"esriGeometryCircularArc", "esriGeometryEllipticArc",
                    "esriGeometryBezier3Curve", "esriGeometryPath"} -> "CURVE"
          [] t = "esriGeometryPolyline" -> "MULTILINESTRING"
          [] t = "esriGeometryRing" -> "POLYGON"
          [] t = "esriGeometryPolygon" -> "MULTIPOLYGON"
          [] t = "esriGeometryEnvelope" -> "POLYGON"
          [] t = "esriGeometryAny" -> "GEOMCOLLECTION"
          [] OTHER -> "MULTISURFACE"]

_field_translation ==
    [t \in {"esriFieldTypeSmallInteger", "esriFieldTypeInteger", "esriFieldTypeSingle",
            "esriFieldTypeDouble", "esriFieldTypeString", "esriFieldTypeDate",
            "esriFieldTypeOID", "esriFieldTypeBlob", "esriFieldTypeGUID",
            "esriFieldTypeGlobalID", "esriFieldTypeXML"} |->
        CASE t \in {"esriFieldTypeSmallInteger", "esriFieldTypeInteger"} -> "integer"
          [] t \in {"esriFieldTypeSingle", "esriFieldTypeDouble"} -> "double precision"
          [] t = "esriFieldTypeString" -> "character varying"
          [] t = "esriFieldTypeDate" -> "bigint"
          [] t = "esriFieldTypeOID" -> "serial"
          [] t = "esriFieldTypeBlob" -> "bytea"
          [] t \in {"esriFieldTypeGUID", "esriFieldTypeGlobalID"} -> "uuid"
          [] OTHER -> "xml"]

\* the destination types whose length is dropped, line 166
NoLengthTypes == {"date", "uuid", "integer", "bigint", "smallint"}

(***************************************************************************)
(* EsriJSON2Pg.convert_fields                                              *)
(*   a source field descriptor is [name, type, length, alias], each an     *)
(*   optional key; a translated field is [name, type, length, alias] with  *)
(*   name a string and the others optional keys.                           *)
(*   The result is [err, fo]: err = "KeyError" when a type tag is not in   *)
(*   _field_translation.                                                   *)
(***************************************************************************)
FieldNames(fo) == {fo[k].name : k \in 1..Len(fo)}

\* (faulty variant: no padding)
PaddedLengthBare(f) == f.length

\* lines 159-163: the length key of the translated field before line 166
PaddedLength(f) ==
    IF f.length = None THEN None
    ELSE IF f.type = Some("esriFieldTypeString") THEN Some(Get(f.length) + fudge)
    ELSE f.length

\* lines 153-167: the translated field of a descriptor whose type tag is mapped
\* or absent
ConvertField(f) ==
    LET ty == IF f.type = None THEN None ELSE Some(_field_translation[Get(f.type)])
    IN  [name |-> _clean_field_names(Get(f.name)),
         type |-> ty,
         length |-> IF ty # None /\ Get(ty) \in NoLengthTypes THEN None ELSE PaddedLength(f),
         alias |-> f.alias]

\* (faulty variant: a field with an unmapped type tag is left out)
RECURSIVE ConvertLoopLenient(_, _)
ConvertLoopLenient(fs, fo) ==
    IF fs = <<>> THEN [err |-> "", fo |-> fo]
    ELSE LET f == Head(fs) IN
         IF f.name = None THEN ConvertLoopLenient(Tail(fs), fo)
         ELSE IF _clean_field_names(Get(f.name)) \in FieldNames(fo)
              THEN ConvertLoopLenient(Tail(fs), fo)
         ELSE IF f.type # None /\ Get(f.type) \notin DOMAIN _field_translation
              THEN ConvertLoopLenient(Tail(fs), fo)
         ELSE IF _clean_field_names(Get(f.name)) # <<>>
              THEN ConvertLoopLenient(Tail(fs), Append(fo, ConvertField(f)))
         ELSE ConvertLoopLenient(Tail(fs), fo)

\* lines 151-169: the loop over the descriptors left, fo the fields so far
RECURSIVE ConvertLoop(_, _)
ConvertLoop(fs, fo) ==
    IF fs = <<>> THEN [err |-> "", fo |-> fo]
    ELSE LET f == Head(fs) IN
         IF f.name = None THEN ConvertLoop(Tail(fs), fo)
         ELSE IF _clean_field_names(Get(f.name)) \in FieldNames(fo)
              THEN ConvertLoop(Tail(fs), fo)
         ELSE IF f.type # None /\ Get(f.type) \notin DOMAIN _field_translation
              THEN [err |-> "KeyError", fo |-> fo]
         ELSE IF _clean_field_names(Get(f.name)) # <<>>
              THEN ConvertLoop(Tail(fs), Append(fo, ConvertField(f)))
         ELSE ConvertLoop(Tail(fs), fo)

\* lines 170-171: the synthetic geometry field
ShapeField(geomType) == [name |-> S_shape, type |-> Some(geomType), length |-> None, alias |-> None]

convert_fields(srcjson, geomType) ==
    LET r == ConvertLoop(srcjson.fields, <<>>)
    IN  IF r.err # "" THEN r
        ELSE IF geomType # None THEN [err |-> "", fo |-> Append(r.fo, ShapeField(Get(geomType)))]
        ELSE r

(***************************************************************************)
(* EsriJSON2Pg.__init__                                                    *)
(*   in_json is None for a falsy document; the result is the object        *)
(*   [err, srcjson, out_table, geomType, sr, fields].                      *)
(***************************************************************************)
\* lines 126-140
SpatialRef(srcjson, out_srid) ==
    IF out_srid # None THEN Get(out_srid)
    ELSE IF srcjson.spatialReference = None THEN -1
    ELSE LET ref == Get(srcjson.spatialReference)
             sr == IF ref.latestWkid # None THEN Get(ref.latestWkid)
                   ELSE IF ref.wkid # None THEN Get(ref.wkid)
                   ELSE -1
         IN  IF sr = EsriWebMercator THEN _web_mercator ELSE sr

NoObject(err) == [err |-> err, srcjson |-> None, geomType |-> None, sr |-> -1, fields |-> <<>>]

EsriJSON2Pg(in_json, out_srid) ==
    IF in_json = None THEN NoObject("ValueError")
    ELSE LET srcjson == Get(in_json) IN
         IF srcjson.geometryType # None /\ Get(srcjson.geometryType) \notin DOMAIN _esri_types
         THEN NoObject("KeyError")
         ELSE LET geomType == IF srcjson.geometryType = None THEN None
                              ELSE Some(_esri_types[Get(srcjson.geometryType)])
                  cf == convert_fields(srcjson, geomType)
              IN  IF cf.err # "" THEN NoObject(cf.err)
                  ELSE [err |-> "", srcjson |-> in_json, geomType |-> geomType,
                        sr |-> SpatialRef(srcjson, out_srid), fields |-> cf.fo]

(***************************************************************************)
(* _check_oid_range, lines 370-378: the id bounds of the statistics        *)
(* response and the chunks planned from them                               *)
(***************************************************************************)
RECURSIVE PyRange(_, _, _)
PyRange(start, stop, step) ==
    IF start >= stop THEN <<>> ELSE <<start>> \o PyRange(start + step, stop, step)

\* lines 372-377: response is [oidmin, oidmax], each null or a number (10.1 and
\* later), or [count]
OidBounds(version, response) ==
    IF version >= StatsVersion
    THEN [oidmin |-> response.oidmin, oidmax |-> response.oidmax]
    ELSE [oidmin |-> Some(0), oidmax |-> Some(response.count)]

\* (faulty variant: the chunks are planned from the highest id down)
OidRangesDescending(oid) ==
    LET fs == PyRange(Get(oid.oidmin), Get(oid.oidmax), ChunkStep)
    IN  [k \in 1..Len(fs) |-> <<fs[Len(fs) + 1 - k], fs[Len(fs) + 1 - k] + ChunkSpan>>]

\* line 378
OidRanges(oid) ==
    LET fs == PyRange(Get(oid.oidmin), Get(oid.oidmax), ChunkStep)
    IN  [k \in 1..Len(fs) |-> <<fs[k], fs[k] + ChunkSpan>>]

(***************************************************************************)
(* EsriJSON2Pg.create_table: the statements of the returned sql            *)
(*   columns: one [name, type, length] per field whose name has no "."     *)
(*   and is neither "geometry" nor "shape"; addGeometry: the               *)
(*   AddGeometryColumn statement, when there is one; comments: one         *)
(*   [name, alias] per COMMENT ON COLUMN.                                  *)
(***************************************************************************)
\* lines 180-186
TableColumns(fields) ==
    LET kept == SelectSeq(fields, LAMBDA f : ~Contains(f.name, ".") /\ f.name \notin {S_geometry, S_shape})
    IN  [k \in 1..Len(kept) |-> [name |-> kept[k].name, type |-> Get(kept[k].type), length |-> kept[k].length]]

\* lines 197-200
TableComments(fields) ==
    LET aliased == SelectSeq(fields, LAMBDA f : f.alias # None /\ f.name # Get(f.alias))
    IN  [k \in 1..Len(aliased) |-> [name |-> aliased[k].name, alias |-> Get(aliased[k].alias)]]

create_table(self) ==
    LET srcjson == Get(self.srcjson)
        typeless == \E k \in 1..Len(self.fields) :
                        /\ ~Contains(self.fields[k].name, ".")
                        /\ self.fields[k].name \notin {S_geometry, S_shape}
                        /\ self.fields[k].type = None
    IN  IF typeless THEN [err |-> "KeyError", columns |-> <<>>, addGeometry |-> None, comments |-> <<>>]
        ELSE [err |-> "",
              columns |-> TableColumns(self.fields),
              addGeometry |-> IF srcjson.geometryType # None /\ srcjson.spatialReference # None
                              THEN Some([sr |-> self.sr, geomType |-> Get(self.geomType)])
                              ELSE None,
              comments |-> TableComments(self.fields)]

(***************************************************************************)
(* EsriJSON2Pg.change_geometry(indx=i)                                     *)
(*   the geometry of a feature is [kind, x, y, rings] with kind            *)
(*     "missing": the feature has no geometry key                          *)
(*     "null":    the key holds JSON null                                  *)
(*     "xy":      an object with x and y                                   *)
(*     "rings":   an object with rings, a sequence of sequences of points  *)
(*     "paths":   another object (paths or points)                         *)
(*   The result is [err, wkt]; the text "SRID=<sr>;<KIND>(..)" is          *)
(*   [srid, kind, parens, rings], parens the depth of its parentheses.     *)
(***************************************************************************)
NoWkt(err) == [err |-> err, wkt |-> None]

\* line 219: some ring has three points or fewer
HasSliver(rings) == \E k \in 1..Len(rings) : Len(rings[k]) <= 3

change_geometry(self, indx) ==
    LET geom == Get(self.srcjson).features[indx].geometry IN
    CASE geom.kind = "missing" -> NoWkt("KeyError")
      [] geom.kind = "null" -> NoWkt("TypeError")
      [] geom.kind = "rings" ->
            IF geom.rings = <<>> \/ HasSliver(geom.rings) THEN NoWkt("")
            ELSE IF self.geomType \in {Some("POLYGON"), Some("MULTIPOLYGON")}
                 THEN [err |-> "",
                       wkt |-> Some([srid |-> self.sr, kind |-> Get(self.geomType),
                                     parens |-> 3, rings |-> geom.rings])]
                 ELSE NoWkt("")
      [] OTHER ->
            IF self.geomType # Some("POINT") THEN NoWkt("")
            ELSE IF geom.kind # "xy" THEN NoWkt("KeyError")
            ELSE [err |-> "",
                  wkt |-> Some([srid |-> self.sr, kind |-> "POINT", parens |-> 1,
                                rings |-> <<<< <<geom.x, geom.y>> >>>>])]

(***************************************************************************)
(* EsriJSON2Pg.insert_statements: the step of the generator at feature i   *)
(*   [err, yield]: yield is None when the feature is passed over, else     *)
(*   the statement [fields, objectid, shape].                              *)
(***************************************************************************)
InsertStatement(self, indx) ==
    LET shape == change_geometry(self, indx)
    IN  IF shape.err # "" THEN [err |-> shape.err, yield |-> None]
        ELSE IF shape.wkt = None THEN [err |-> "", yield |-> None]
        ELSE [err |-> "",
              yield |-> Some([fields |-> [k \in 1..Len(self.fields) |-> self.fields[k].name],
                              objectid |-> Get(self.srcjson).features[indx].oid,
                              shape |-> Get(shape.wkt)])]

(***************************************************************************)
(* The source service and the destination store                            *)
(***************************************************************************)
\* the statistics response of lines 367-371 on the source's features: min and
\* max are null on a layer without features
OidSet(features) == {features[k].oid : k \in 1..Len(features)}

StatsResponse(source) ==
    LET ids == OidSet(source.features)
    IN  [oidmin |-> IF ids = {} THEN None ELSE Some(CHOOSE m \in ids : \A x \in ids : m <= x),
         oidmax |-> IF ids = {} THEN None ELSE Some(CHOOSE m \in ids : \A x \in ids : x <= m),
         count |-> Len(source.features)]

\* the query response of lines 470-476 for the chunk low..high
QueryResponse(source, chunk) ==
    [fields |-> source.schema.fields,
     geometryType |-> source.schema.geometryType,
     spatialReference |-> source.schema.spatialReference,
     features |-> SelectSeq(source.features, LAMBDA f : chunk[1] <= f.oid /\ f.oid <= chunk[2])]

\* the table as the connection sees it: committed state and open transaction
TableVisible == db.table \/ tx.created
ColumnsVisible == db.columns \cup tx.columns
RowsVisible == db.rows \cup tx.rows

\* select max(objectid) from <table>, line 441
MaxObjectid(rows) ==
    IF rows = {} THEN None
    ELSE Some(CHOOSE m \in {r[1] : r \in rows} : \A r \in rows : r[1] <= m)

\* (faulty variant: the probe never finds a row)
ChunkProbeBlind(rows, chunk) == FALSE

\* select 1 from <table> where objectid between low and high: cur.rowcount > 0
ChunkProbe(rows, chunk) == \E r \in rows : chunk[1] <= r[1] /\ r[1] <= chunk[2]

NoTx == [created |-> FALSE, columns |-> {}, rows |-> {}, failed |-> FALSE]
NoJp == NoObject("")

\* an external event of the run: a request or statement that was answered
\* (Event) or that raised (Refused)
\* (name: the id field the request or statement names; oid: the id of the row
\* of an INSERT)
Event(ev, chunk, name) == [ev |-> ev, l |-> chunk, name |-> name, oid |-> 0, ok |-> TRUE]
Refused(ev, chunk, name) == [ev |-> ev, l |-> chunk, name |-> name, oid |-> 0, ok |-> FALSE]
InsertEvent(chunk, oid, ok) == [ev |-> "insert", l |-> chunk, name |-> "", oid |-> oid, ok |-> ok]

\* an exception: its type, the exception it wraps (itself when it wraps none)
\* and the place that raised it
NoError == [type |-> "", cause |-> "", at |-> ""]
Uncaught(cause, at) == [type |-> cause, cause |-> cause, at |-> at]
\* line 488
QueryException(cause, at) == [type |-> "QueryException", cause |-> cause, at |-> at]

(***************************************************************************)
(* main                                                                    *)
(***************************************************************************)
\* (faulty variant: the statements executed before the exception are committed)
AbandonedCommitted(store, trans) ==
    [table |-> store.table \/ trans.created,
     columns |-> store.columns \cup trans.columns,
     rows |-> store.rows \cup trans.rows]

\* what the store holds once the connection is gone without a commit
Abandoned(store, trans) == store

\* the process ends on an exception: the connection closes without commit
Raise(err) ==
    /\ pc' = "failed"
    /\ error' = err
    /\ db' = Abandoned(db, tx)
    /\ tx' = NoTx

\* a run of the program begins: module globals and locals are fresh
StartRun ==
    /\ pc \in {"idle", "done", "failed"}
    /\ run < MaxRuns
    /\ run' = run + 1
    /\ pc' = "plan"
    /\ error' = NoError
    /\ objectid_field_name' = "OBJECTID"
    /\ oids' = <<>>
    /\ table_exists' = FALSE
    /\ db_max' = Some(DbMaxInit)
    /\ l' = 0
    /\ jp' = NoJp
    /\ i' = 0
    /\ log' = <<>>
    /\ tx' = NoTx
    /\ hist' = [existed |-> db.table, rows0 |-> db.rows, done |-> {}]
    /\ UNCHANGED <<call, src, db, faults>>

\* lines 355-364: the id field name after the objectIdFieldName request
ReportedName(source, default) == IF source.reportsName THEN source.oidField ELSE default

\* lines 366-383 with the id field called name
PlanChunks(name) ==
    LET oid == OidBounds(src.version, StatsResponse(src))
    IN  /\ objectid_field_name' = name
        /\ log' = Append(log, Event("stats", 0, name))
        /\ IF Lower(name) # Lower(src.oidField)
           THEN Raise(Uncaught("KeyError", "_check_oid_range")) /\ UNCHANGED oids
           ELSE IF oid.oidmin = None \/ oid.oidmax = None
           THEN Raise(Uncaught("TypeError", "_check_oid_range")) /\ UNCHANGED oids
           ELSE /\ oids' = OidRanges(oid)
                /\ pc' = "table"
                /\ UNCHANGED <<error, db, tx>>

\* _check_oid_range, lines 324-383
CheckOidRange ==
    /\ pc = "plan"
    /\ PlanChunks(ReportedName(src, objectid_field_name))
    /\ UNCHANGED <<call, src, run, table_exists, db_max, l, jp, i, hist, faults>>

\* lines 355-364 with the request raising: the name keeps its default
CheckOidRangeNameFails ==
    /\ pc = "plan"
    /\ faults < MaxFaults
    /\ faults' = faults + 1
    /\ PlanChunks(objectid_field_name)
    /\ UNCHANGED <<call, src, run, table_exists, db_max, l, jp, i, hist>>

\* lines 350, 371: the version or the statistics request raises
CheckOidRangeFails ==
    /\ pc = "plan"
    /\ faults < MaxFaults
    /\ faults' = faults + 1
    /\ Raise(Uncaught("ConnectionError", "_check_oid_range"))
    /\ UNCHANGED <<call, src, run, objectid_field_name, oids, table_exists, db_max, l, jp, i, log, hist>>

\* lines 427-450
CheckTable ==
    /\ pc = "table"
    /\ IF ~TableVisible
       THEN /\ table_exists' = FALSE
            /\ pc' = "loop"
            /\ UNCHANGED <<db_max, log, error, db, tx>>
       ELSE /\ table_exists' = TRUE
            /\ log' = Append(log, Event("max", 0, "objectid"))
            /\ IF S_objectid \notin ColumnsVisible
               THEN Raise(Uncaught("UndefinedColumn", "main")) /\ UNCHANGED db_max
               ELSE /\ db_max' = MaxObjectid(RowsVisible)
                    /\ pc' = "loop"
                    /\ UNCHANGED <<error, db, tx>>
    /\ l' = 1
    /\ UNCHANGED <<call, src, run, objectid_field_name, oids, jp, i, hist, faults>>

\* lines 453-466: the for loop takes the next chunk and decides on it
ResumeDecision ==
    /\ pc = "loop"
    /\ l <= Len(oids)
    /\ IF db_max = None
       THEN Raise(Uncaught("TypeError", "main")) /\ UNCHANGED <<l, log>>
       ELSE IF Get(db_max) >= oids[l][2]
       THEN /\ log' = Append(log, Event("skip", l, ""))
            /\ l' = l + 1
            /\ UNCHANGED <<pc, error, db, tx>>
       ELSE IF table_exists /\ ChunkProbe(RowsVisible, oids[l])
       THEN /\ log' = log \o <<Event("probe", l, "objectid"), Event("skip", l, "")>>
            /\ l' = l + 1
            /\ UNCHANGED <<pc, error, db, tx>>
       ELSE /\ log' = IF table_exists THEN Append(log, Event("probe", l, "objectid")) ELSE log
            /\ pc' = "fetch"
            /\ UNCHANGED <<l, error, db, tx>>
    /\ UNCHANGED <<call, src, run, objectid_field_name, oids, table_exists, db_max, jp, i, hist, faults>>

\* lines 457-466 with the probe raising: the error is logged, the chunk is
\* requested, and the transaction is left aborted
ResumeProbeFails ==
    /\ pc = "loop"
    /\ l <= Len(oids)
    /\ db_max # None
    /\ Get(db_max) < oids[l][2]
    /\ table_exists
    /\ faults < MaxFaults
    /\ faults' = faults + 1
    /\ log' = Append(log, Refused("probe", l, "objectid"))
    /\ tx' = [tx EXCEPT !.failed = TRUE]
    /\ pc' = "fetch"
    /\ UNCHANGED <<call, src, db, run, error, objectid_field_name, oids, table_exists, db_max, l, jp, i, hist>>

\* lines 468-477: the request for the chunk and the EsriJSON2Pg of its response
Fetch ==
    /\ pc = "fetch"
    /\ log' = Append(log, Event("fetch", l, objectid_field_name))
    /\ LET obj == EsriJSON2Pg(Some(QueryResponse(src, oids[l])), src.out_srid)
       IN  IF obj.err # ""
           THEN Raise(QueryException(obj.err, "EsriJSON2Pg")) /\ UNCHANGED <<jp, i>>
           ELSE /\ jp' = obj
                /\ i' = 1
                /\ pc' = IF table_exists THEN "insert" ELSE "create"
                /\ UNCHANGED <<error, db, tx>>
    /\ UNCHANGED <<call, src, run, objectid_field_name, oids, table_exists, db_max, l, hist, faults>>

\* line 476 with the request raising
FetchFails ==
    /\ pc = "fetch"
    /\ faults < MaxFaults
    /\ faults' = faults + 1
    /\ log' = Append(log, Refused("fetch", l, objectid_field_name))
    /\ Raise(QueryException("ConnectionError", "requests.get"))
    /\ UNCHANGED <<call, src, run, objectid_field_name, oids, table_exists, db_max, l, jp, i, hist>>

\* lines 479-480: the store refuses CREATE TABLE for a table that is there
CreateTable ==
    /\ pc = "create"
    /\ LET sql == create_table(jp)
       IN  IF sql.err # ""
           THEN Raise(QueryException(sql.err, "create_table")) /\ UNCHANGED log
           ELSE IF tx.failed \/ TableVisible
                THEN /\ log' = Append(log, Refused("create", l, ""))
                     /\ Raise(QueryException(IF tx.failed THEN "InFailedSqlTransaction" ELSE "DuplicateTable",
                                             "cur.execute"))
                ELSE /\ log' = Append(log, Event("create", l, ""))
                     /\ tx' = [tx EXCEPT !.created = TRUE,
                                         !.columns = {sql.columns[k].name : k \in 1..Len(sql.columns)}]
                     /\ pc' = "insert"
                     /\ UNCHANGED <<error, db>>
    /\ UNCHANGED <<call, src, run, objectid_field_name, oids, table_exists, db_max, l, jp, i, hist, faults>>

\* the row an INSERT statement stores
StoredRow(statement) == <<statement.objectid, run>>

\* lines 482-485: one step of the loop over insert_statements
Insert ==
    /\ pc = "insert"
    /\ i <= Len(Get(jp.srcjson).features)
    /\ LET st == InsertStatement(jp, i)
       IN  IF st.err # ""
           THEN Raise(QueryException(st.err, "change_geometry")) /\ UNCHANGED <<i, log>>
           ELSE IF st.yield = None
           THEN /\ i' = i + 1
                /\ UNCHANGED <<pc, error, db, tx, log>>
           ELSE IF tx.failed
                THEN /\ log' = Append(log, InsertEvent(l, Get(st.yield).objectid, FALSE))
                     /\ Raise(QueryException("InFailedSqlTransaction", "cur.execute"))
                     /\ UNCHANGED i
                ELSE /\ log' = Append(log, InsertEvent(l, Get(st.yield).objectid, TRUE))
                     /\ tx' = [tx EXCEPT !.rows = @ \cup {StoredRow(Get(st.yield))}]
                     /\ i' = i + 1
                     /\ UNCHANGED <<pc, error, db>>
    /\ UNCHANGED <<call, src, run, objectid_field_name, oids, table_exists, db_max, l, jp, hist, faults>>

\* line 484 with the store refusing the statement
InsertFails ==
    /\ pc = "insert"
    /\ i <= Len(Get(jp.srcjson).features)
    /\ InsertStatement(jp, i).err = ""
    /\ InsertStatement(jp, i).yield # None
    /\ faults < MaxFaults
    /\ faults' = faults + 1
    /\ log' = Append(log, InsertEvent(l, Get(InsertStatement(jp, i).yield).objectid, FALSE))
    /\ Raise(QueryException("DatabaseError", "cur.execute"))
    /\ UNCHANGED <<call, src, run, objectid_field_name, oids, table_exists, db_max, l, jp, i, hist>>

\* what the store holds after the commit of a transaction: an aborted
\* transaction commits nothing
Committed(store, trans) ==
    IF trans.failed THEN store
    ELSE [table |-> store.table \/ trans.created,
          columns |-> store.columns \cup trans.columns,
          rows |-> store.rows \cup trans.rows]

\* line 486, then the for loop goes on
Commit ==
    /\ pc = "insert"
    /\ i > Len(Get(jp.srcjson).features)
    /\ log' = Append(log, Event("commit", l, ""))
    /\ db' = Committed(db, tx)
    /\ tx' = NoTx
    /\ hist' = [hist EXCEPT !.done = @ \cup {l}]
    /\ l' = l + 1
    /\ pc' = "loop"
    /\ UNCHANGED <<call, src, run, error, objectid_field_name, oids, table_exists, db_max, jp, i, faults>>

\* line 486 with the commit raising
CommitFails ==
    /\ pc = "insert"
    /\ i > Len(Get(jp.srcjson).features)
    /\ faults < MaxFaults
    /\ faults' = faults + 1
    /\ log' = Append(log, Refused("commit", l, ""))
    /\ Raise(QueryException("OperationalError", "connection.commit"))
    /\ UNCHANGED <<call, src, run, objectid_field_name, oids, table_exists, db_max, l, jp, i, hist>>

\* lines 490-493
Cleanup ==
    /\ pc = "loop"
    /\ l > Len(oids)
    /\ pc' = "done"
    /\ tx' = NoTx
    /\ UNCHANGED <<call, src, db, run, error, objectid_field_name, oids, table_exists, db_max, l, jp, i, log, hist, faults>>

(***************************************************************************)
(* Sampled inputs                                                          *)
(***************************************************************************)
Point(x, y) == <<x, y>>
GeomXY == [kind |-> "xy", x |-> 10, y |-> 20, rings |-> <<>>]
GeomNull == [kind |-> "null", x |-> 0, y |-> 0, rings |-> <<>>]
GeomMissing == [kind |-> "missing", x |-> 0, y |-> 0, rings |-> <<>>]
GeomPaths == [kind |-> "paths", x |-> 0, y |-> 0, rings |-> <<>>]
GeomRing == [kind |-> "rings", x |-> 0, y |-> 0,
             rings |-> << <<Point(0, 0), Point(0, 1), Point(1, 1), Point(0, 0)>> >>]
GeomSliver == [kind |-> "rings", x |-> 0, y |-> 0,
               rings |-> << <<Point(0, 0), Point(0, 1), Point(0, 0)>> >>]
GeomNoRings == [kind |-> "rings", x |-> 0, y |-> 0, rings |-> <<>>]

Descriptor(name, type, length, alias) == [name |-> name, type |-> type, length |-> length, alias |-> alias]

SeqsUpTo(S, n) == UNION {[1..k -> S] : k \in 0..n}

\* the field descriptors the schema translation is tried on
FieldSamples ==
    {Descriptor(Some(n), Some("esriFieldTypeString"), len, None) :
        n \in {S_name, S_t_name, S_shape}, len \in {None, Some(10), Some(251)}}
    \cup {Descriptor(Some(n), Some("esriFieldTypeInteger"), len, None) :
        n \in {S_name, S_paren}, len \in {None, Some(4)}}
    \cup {Descriptor(Some(n), Some("esriFieldTypeGeometry"), None, None) : n \in {S_shape, S_t_name}}
    \cup {Descriptor(Some(S_name), None, Some(10), None),
          Descriptor(None, Some("esriFieldTypeString"), None, None),
          Descriptor(Some(S_empty), Some("esriFieldTypeString"), None, None),
          Descriptor(Some(S_name), Some("esriFieldTypeString"), Some(10), Some(S_name)),
          Descriptor(Some(S_name), Some("esriFieldTypeDate"), Some(8), Some(S_t_name))}

NoRef == [wkid |-> None, latestWkid |-> None]
GeometrySamples ==
    {[geometryType |-> None, spatialReference |-> None],
     [geometryType |-> Some("esriGeometryPoint"), spatialReference |-> Some([NoRef EXCEPT !.wkid = Some(4326)])],
     [geometryType |-> Some("esriGeometryPolygon"),
      spatialReference |-> Some([wkid |-> Some(EsriWebMercator), latestWkid |-> Some(EsriWebMercator)])],
     [geometryType |-> Some("esriGeometryUnknown"), spatialReference |-> None]}

\* the query responses the schema translation is tried on
SchemaSamples ==
    {[fields |-> fs, geometryType |-> g.geometryType, spatialReference |-> g.spatialReference,
      features |-> <<>>] : fs \in SeqsUpTo(FieldSamples, MaxFields), g \in GeometrySamples}

\* the id bounds the planning is tried on
OidSamples == {c * ChunkStep + d : c \in 0..MaxStride, d \in {0, 1, 500, ChunkSpan}}

StatsSamples ==
    {[version |-> StatsVersion, response |-> [oidmin |-> Some(p[1]), oidmax |-> Some(p[2])]] :
        p \in {q \in OidSamples \X OidSamples : q[1] <= q[2]}}
    \cup {[version |-> StatsVersion - 1, response |-> [count |-> c]] : c \in OidSamples}

\* the sources the import is run on
OidField(name) == Descriptor(Some(name), Some("esriFieldTypeOID"), None, None)
NameField == Descriptor(Some(S_name), Some("esriFieldTypeString"), Some(10), None)
Wgs84 == Some([wkid |-> Some(4326), latestWkid |-> Some(4326)])
WebMercator == Some([wkid |-> Some(EsriWebMercator), latestWkid |-> Some(_web_mercator)])

PointSchema == [fields |-> <<OidField(S_objectid), NameField>>,
                geometryType |-> Some("esriGeometryPoint"), spatialReference |-> Wgs84]
PolygonSchema == [fields |-> <<OidField(S_objectid), NameField>>,
                  geometryType |-> Some("esriGeometryPolygon"), spatialReference |-> WebMercator]
PolylineSchema == [fields |-> <<OidField(S_objectid), NameField>>,
                   geometryType |-> Some("esriGeometryPolyline"), spatialReference |-> Wgs84]
FidSchema == [fields |-> <<OidField(S_fid), NameField>>,
              geometryType |-> Some("esriGeometryPoint"), spatialReference |-> Wgs84]
UnmappedFieldSchema ==
    [fields |-> <<OidField(S_objectid), Descriptor(Some(S_shape), Some("esriFieldTypeGeometry"), None, None)>>,
     geometryType |-> Some("esriGeometryPoint"), spatialReference |-> Wgs84]
\* the unmapped tag is on a field that cleans to the name of an earlier one
ShadowedUnmappedSchema ==
    [fields |-> <<OidField(S_objectid), NameField,
                  Descriptor(Some(S_t_name), Some("esriFieldTypeGeometry"), None, None)>>,
     geometryType |-> Some("esriGeometryPoint"), spatialReference |-> Wgs84]
UnmappedGeometrySchema == [fields |-> <<OidField(S_objectid), NameField>>,
                           geometryType |-> Some("esriGeometryUnknown"), spatialReference |-> Wgs84]

LowOids == {1, 2}
HighOids == {k * ChunkStep + d : k \in 1..MaxSpan, d \in {500, 501}}

RECURSIVE Ascending(_)
Ascending(S) == IF S = {} THEN <<>>
                ELSE LET m == CHOOSE x \in S : \A y \in S : x <= y IN <<m>> \o Ascending(S \ {m})

\* the features with the ids of DOMAIN g, in id order, g their geometries
FeaturesOf(g) ==
    LET ids == Ascending(DOMAIN g)
    IN  [k \in 1..Len(ids) |-> [oid |-> ids[k], geometry |-> g[ids[k]]]]

\* features with any of the geometries geoms at the low ids and the geometry
\* good at the high ids
FeatureSamples(geoms, good) ==
    {FeaturesOf(g) : g \in UNION {[S -> geoms \cup {good}] : S \in SUBSET (LowOids \cup HighOids)}}

Source(version, oidField, reportsName, schema, features) ==
    [version |-> version, oidField |-> oidField, reportsName |-> reportsName,
     schema |-> schema, features |-> features, out_srid |-> None]

SourceSamples ==
    {Source(StatsVersion, "OBJECTID", TRUE, PointSchema, fs) :
        fs \in {f \in FeatureSamples({GeomNull, GeomMissing}, GeomXY) :
                    \A k \in 1..Len(f) : f[k].oid \in HighOids => f[k].geometry = GeomXY}}
    \cup {Source(StatsVersion, "OBJECTID", TRUE, PolygonSchema, fs) :
        fs \in {f \in FeatureSamples({GeomSliver, GeomNoRings}, GeomRing) :
                    \A k \in 1..Len(f) : f[k].oid \in HighOids => f[k].geometry = GeomRing}}
    \cup {Source(StatsVersion - 1, "OBJECTID", FALSE, PointSchema, fs) :
        fs \in FeatureSamples({}, GeomXY)}
    \cup {Source(StatsVersion, "OBJECTID", TRUE, sch, fs) :
        sch \in {UnmappedFieldSchema, UnmappedGeometrySchema, ShadowedUnmappedSchema},
        fs \in {f \in FeatureSamples({}, GeomXY) : \A k \in 1..Len(f) : f[k].oid # 2}}
    \cup {Source(StatsVersion, "OBJECTID", TRUE, PolylineSchema, fs) :
        fs \in {f \in FeatureSamples({}, GeomPaths) : \A k \in 1..Len(f) : f[k].oid # 2}}
    \cup {Source(StatsVersion, "FID", rep, FidSchema, fs) :
        rep \in BOOLEAN,
        fs \in {f \in FeatureSamples({}, GeomXY) : \A k \in 1..Len(f) : f[k].oid # 2}}

(***************************************************************************)
(* Specifications                                                          *)
(***************************************************************************)
NoCall == [fn |-> "", arg |-> None, ret |-> None, ddl |-> None]

MainIdle(source) ==
    /\ src = source
    /\ db = [table |-> FALSE, columns |-> {}, rows |-> {}]
    /\ tx = NoTx
    /\ run = 0
    /\ pc = "idle"
    /\ error = NoError
    /\ objectid_field_name = "OBJECTID"
    /\ oids = <<>>
    /\ table_exists = FALSE
    /\ db_max = Some(DbMaxInit)
    /\ l = 0
    /\ jp = NoJp
    /\ i = 0
    /\ log = <<>>
    /\ hist = [existed |-> FALSE, rows0 |-> {}, done |-> {}]
    /\ faults = 0

\* the import: runs of main, one after the other, on one source and one table
Init ==
    /\ call = NoCall
    /\ \E source \in SourceSamples : MainIdle(source)

Next ==
    \/ StartRun
    \/ CheckOidRange
    \/ CheckOidRangeNameFails
    \/ CheckOidRangeFails
    \/ CheckTable
    \/ ResumeDecision
    \/ ResumeProbeFails
    \/ Fetch
    \/ FetchFails
    \/ CreateTable
    \/ Insert
    \/ InsertFails
    \/ Commit
    \/ CommitFails
    \/ Cleanup

Spec == Init /\ [][Next]_vars

\* the planning of the chunks, on sampled statistics responses
InitRange ==
    /\ call \in {[fn |-> "_check_oid_range", arg |-> a, ret |-> None, ddl |-> None] : a \in StatsSamples}
    /\ MainIdle(Source(StatsVersion, "OBJECTID", TRUE, PointSchema, <<>>))

CallOidRanges ==
    /\ call.fn = "_check_oid_range"
    /\ call.ret = None
    /\ call' = [call EXCEPT !.ret = Some(OidRanges(OidBounds(call.arg.version, call.arg.response)))]
    /\ UNCHANGED mainVars

NextRange == CallOidRanges

SpecRange == InitRange /\ [][NextRange]_vars

\* the schema translation, on sampled query responses
InitFields ==
    /\ call \in {[fn |-> "EsriJSON2Pg", arg |-> Some(a), ret |-> None, ddl |-> None] : a \in SchemaSamples}
    /\ MainIdle(Source(StatsVersion, "OBJECTID", TRUE, PointSchema, <<>>))

CallEsriJSON2Pg ==
    /\ call.fn = "EsriJSON2Pg"
    /\ call.ret = None
    /\ call' = [call EXCEPT !.ret = Some(EsriJSON2Pg(call.arg, None))]
    /\ UNCHANGED mainVars

CallCreateTable ==
    /\ call.fn = "EsriJSON2Pg"
    /\ call.ret # None
    /\ Get(call.ret).err = ""
    /\ call.ddl = None
    /\ call' = [call EXCEPT !.ddl = Some(create_table(Get(call.ret)))]
    /\ UNCHANGED mainVars

NextFields ==
    \/ CallEsriJSON2Pg
    \/ CallCreateTable

SpecFields == InitFields /\ [][NextFields]_vars

(***************************************************************************)
(* Properties                                                              *)
(***************************************************************************)
Events(kind) == {k \in 1..Len(log) : log[k].ev = kind}
ChunkEvents(kind, chunk) == {k \in Events(kind) : log[k].l = chunk}
Within(id, chunk) == chunk[1] <= id /\ id <= chunk[2]
\* the chunks of the run that were requested from the source
Requested == {log[k].l : k \in Events("fetch")}
FetchedFeatures == Get(jp.srcjson).features

\* C1: in one run CREATE TABLE is executed exactly once when the table did not
\* exist at the start of the run, before the inserts of the first processed
\* chunk and never for a later one, and not at all when the table existed.
C1_CreateTableOnce ==
    IF hist.existed THEN Events("create") = {}
    ELSE /\ Cardinality(Events("create")) <= 1
         /\ \A k \in Events("create") : \A c \in Requested : log[k].l <= c
         /\ \A k \in Events("insert") : \E c \in Events("create") : c < k
         /\ pc = "insert" => Events("create") # {}

\* C2: for id bounds min <= max the planned ranges start at min, each is
\* (low, low + chunkSize - 1), each next low is the previous high + 1, and
\* every id of min..max lies in exactly one of them.
C2_RangesCoverBounds ==
    (call.fn = "_check_oid_range" /\ call.ret # None) =>
        LET oid == OidBounds(call.arg.version, call.arg.response)
            min == Get(oid.oidmin)
            max == Get(oid.oidmax)
            rs == Get(call.ret)
        IN  min <= max =>
                /\ Len(rs) >= 1
                /\ rs[1][1] = min
                /\ \A k \in 1..Len(rs) : rs[k][2] = rs[k][1] + ChunkStep - 1
                /\ \A k \in 1..(Len(rs) - 1) : rs[k + 1][1] = rs[k][2] + 1
                /\ \A id \in min..max : Cardinality({k \in 1..Len(rs) : Within(id, rs[k])}) = 1

\* C3: a feature whose geometry is null, missing, degenerate or of an
\* unsupported kind is passed over without an error: no run ends on an
\* exception of the geometry encoding, and when the features of a fetched
\* chunk are through, the INSERTs executed for the chunk are as many as its
\* features whose geometry encodes to a text.
Encodes(k) == change_geometry(jp, k).err = "" /\ change_geometry(jp, k).wkt # None

C3_GeometrySkipIsNoError ==
    /\ error.at # "change_geometry"
    /\ (pc = "insert" /\ i > Len(FetchedFeatures)) =>
            Cardinality(ChunkEvents("insert", l)) = Cardinality({k \in 1..Len(FetchedFeatures) : Encodes(k)})

\* C4: the decision on a chunk is: skip when the table existed and the highest
\* stored id is at least the chunk's high bound; else skip when the table
\* existed and a stored row has its id in the chunk; else process.  With no
\* highest stored id the decision completes without error.
Decided == {log[k].l : k \in Events("skip") \cup Events("fetch")} \cup (IF pc = "fetch" THEN {l} ELSE {})
ProbeAnswered(chunk) == \A k \in ChunkEvents("probe", chunk) : log[k].ok
MaxIngestedId == IF hist.rows0 = {} THEN None
                 ELSE Some(CHOOSE m \in {r[1] : r \in hist.rows0} : \A r \in hist.rows0 : r[1] <= m)
ShouldSkip(chunk) ==
    /\ hist.existed
    /\ \/ MaxIngestedId # None /\ Get(MaxIngestedId) >= oids[chunk][2]
       \/ \E r \in hist.rows0 : Within(r[1], oids[chunk])

C4_ResumeDecision ==
    /\ ~(pc = "failed" /\ error = Uncaught("TypeError", "main"))
    /\ \A c \in Decided : ProbeAnswered(c) => (ChunkEvents("skip", c) # {} <=> ShouldSkip(c))

\* C5: over the runs against one source and one table, no run stores a row for
\* a chunk that already had committed rows when the run began, and no source
\* id is stored twice.
StoredBefore(chunk) == \E r \in hist.rows0 : Within(r[1], oids[chunk])

C5_NoChunkInsertedTwice ==
    /\ \A k \in Events("insert") : log[k].ok => ~StoredBefore(log[k].l)
    /\ \A r1, r2 \in db.rows \cup tx.rows : r1[1] = r2[1] => r1 = r2

\* a later run passes over a chunk stored by an earlier run and stores another
C5_Witness ==
    /\ run >= 2
    /\ \E k \in Events("skip") : StoredBefore(log[k].l)
    /\ \E k \in Events("commit") : log[k].ok /\ ChunkEvents("insert", log[k].l) # {}
    /\ \E r \in db.rows : r[2] = run

\* C6: when a fetch or an insert fails while chunk k is processed, the run
\* stops at once: the refused request or statement is the last event of the
\* run, chunk k was requested once, the rows of the chunks completed before
\* stay committed and no row of chunk k is committed.
FailedAt == {k \in Events("fetch") \cup Events("insert") : ~log[k].ok}

C6_FailFast ==
    \A k \in FailedAt :
        /\ k = Len(log)
        /\ pc = "failed"
        /\ Cardinality(ChunkEvents("fetch", log[k].l)) = 1
        /\ hist.rows0 \subseteq db.rows
        /\ \A e \in Events("insert") :
                IF log[e].l = log[k].l
                THEN <<log[e].oid, run>> \notin db.rows
                ELSE <<log[e].oid, run>> \in db.rows
        /\ \A r \in db.rows : r[2] = run => ~Within(r[1], oids[log[k].l])

\* the second insert of a chunk is refused after an earlier chunk of the run
\* was committed with a row
C6_Witness ==
    /\ pc = "failed"
    /\ \E k \in FailedAt : log[k].ev = "insert" /\ ChunkEvents("insert", log[k].l) # {k}
    /\ \E k \in Events("commit") : log[k].ok /\ ChunkEvents("insert", log[k].l) # {}

\* the descriptors the translation keeps: named, not cleaning to the empty
\* name, and the first with their cleaned name
CleanName(f) == _clean_field_names(Get(f.name))
Shadowed(fs, k) == \E j \in 1..(k - 1) : fs[j].name # None /\ CleanName(fs[j]) = CleanName(fs[k])
KeptIdx(fs) == {k \in 1..Len(fs) : fs[k].name # None /\ CleanName(fs[k]) # <<>> /\ ~Shadowed(fs, k)}
\* the place of kept descriptor k among the translated fields
Pos(fs, k) == Cardinality({j \in KeptIdx(fs) : j <= k})

UnmappedType(f) == f.type # None /\ Get(f.type) \notin DOMAIN _field_translation
UnmappedGeometry(schema) == schema.geometryType # None /\ Get(schema.geometryType) \notin DOMAIN _esri_types
\* some type tag or the geometry kind is not in the mapping tables
UnmappedTag(schema) ==
    \/ UnmappedGeometry(schema)
    \/ \E k \in 1..Len(schema.fields) : UnmappedType(schema.fields[k])
\* the same, for a tag the translation gets to: on a named field that no
\* earlier field shadows
UnmappedTagRead(schema) ==
    \/ UnmappedGeometry(schema)
    \/ \E k \in 1..Len(schema.fields) :
            /\ UnmappedType(schema.fields[k])
            /\ schema.fields[k].name # None
            /\ ~(CleanName(schema.fields[k]) # <<>> /\ Shadowed(schema.fields, k))

\* C7 (as claimed): a run on a source with a type tag or geometry kind outside
\* the mapping tables aborts before any fetch: the run has no fetch, no table
\* creation, no insert and no commit.
C7_SchemaErrorBeforeFetch ==
    UnmappedTag(src.schema) =>
        Events("fetch") \cup Events("create") \cup Events("insert") \cup Events("commit") = {}

\* C7 (amended): on a source whose geometry kind, or whose type tag on a named
\* field that no earlier field shadows, is outside the mapping tables, a run
\* requests at most one chunk; when that request is answered the run ends
\* there with the KeyError of the translation, wrapped in QueryException; the
\* run has no table creation, no insert and no commit.
C7_SchemaErrorAtFirstFetch ==
    UnmappedTagRead(src.schema) =>
        /\ Events("create") \cup Events("insert") \cup Events("commit") = {}
        /\ Cardinality(Events("fetch")) <= 1
        /\ \A k \in Events("fetch") :
                log[k].ok => pc = "failed" /\ error = QueryException("KeyError", "EsriJSON2Pg")

\* a run ended by an unmapped field type tag, after its one fetch
C7_Witness ==
    /\ ~UnmappedGeometry(src.schema)
    /\ UnmappedTagRead(src.schema)
    /\ pc = "failed"
    /\ error = QueryException("KeyError", "EsriJSON2Pg")
    /\ Cardinality(Events("fetch")) = 1

\* C8: the translated schema has pairwise distinct field names, holds the
\* first of the descriptors that clean to one name, and, with a geometry kind,
\* has exactly one field named shape, the last one.
Translated == call.fn = "EsriJSON2Pg" /\ call.ret # None /\ Get(call.ret).err = ""

C8_UniqueNamesShapeLast ==
    Translated =>
        LET fs == Get(call.arg).fields
            fo == Get(call.ret).fields
            geom == Get(call.arg).geometryType
        IN  /\ \A a, b \in 1..Len(fo) : fo[a].name = fo[b].name => a = b
            /\ \A k \in KeptIdx(fs) : fo[Pos(fs, k)].name = CleanName(fs[k])
            /\ geom # None =>
                    /\ Cardinality({a \in 1..Len(fo) : fo[a].name = S_shape}) = 1
                    /\ fo[Len(fo)].name = S_shape

\* C9 (as claimed): a string field of source length L is translated with
\* length L + 5 when L + 5 < 256, and with an unbounded text type and no
\* length when L + 5 >= 256.
StringIdx(fs) == {k \in KeptIdx(fs) : fs[k].type = Some("esriFieldTypeString") /\ fs[k].length # None}

Rank(e) ==
    CASE e.ev = "probe" -> 1
      [] e.ev \in {"skip", "fetch"} -> 2
      [] e.ev = "create" -> 3
      [] e.ev = "insert" -> 4
      [] e.ev = "commit" -> 5
      [] OTHER -> 0

C10_OneChunkAtATime ==
    LET chunkEvents == {k \in 1..Len(log) : log[k].l >= 1} IN
    /\ \A p, q \in chunkEvents :
            p < q =>
                IF log[p].l = log[q].l
                THEN Rank(log[p]) < Rank(log[q]) \/ (log[p].ev = "insert" /\ log[q].ev = "insert")
                ELSE oids[log[p].l][2] < oids[log[q].l][1]
    /\ \A k \in Events("create") \cup Events("insert") \cup Events("commit") :
            \E f \in ChunkEvents("fetch", log[k].l) : f < k /\ log[f].ok
    /\ Cardinality({k \in Events("commit") : log[k].ok}) = Cardinality({c \in Requested : c < l})

\* a run passed over one chunk and committed two
C10_Witness ==
    /\ Events("skip") # {}
    /\ Cardinality({k \in Events("commit") : log[k].ok}) >= 2
    /\ Events("insert") # {}

\* the requests and statements of the run that name the id field
ProbeEvents == Events("max") \cup Events("probe")
IdFilterName == ReportedName(src, "OBJECTID")

\* C11: in every run the id field name of the resume probes (the max query and
\* the per-chunk range probe) and the name in the id filter of every chunk
\* fetch are one name: the name the source reports when it reports one, and
\* the default OBJECTID otherwise. Names are compared without regard to case,
\* as the database and the service compare them.
C11_ProbesUseFetchName ==
    \A k \in ProbeEvents \cup Events("fetch") :
        Lower(log[k].name) = Lower(IdFilterName)

====
